---- MODULE Spec2Model ----
(***************************************************************************)
(* BG Soft Telegram game backend integration (bg-integration.js and its    *)
(* two later revisions).  One page load: identity resolution, the          *)
(* register / start-session / end-session calls over fetchWithTimeout,     *)
(* the session record kept in localStorage, and the lifecycle wiring.      *)
(***************************************************************************)
EXTENDS Integers, Sequences, FiniteSets, TLC

VARIABLES
    variant,         \* which revision of bg-integration.js the page loads
    retries,         \* BG_CONFIG.RETRIES
    tg_uid,          \* raw value of the tg_uid query parameter
    sdk,             \* window.Telegram.WebApp
    tgWebAppData,    \* raw value of the tgWebAppData query parameter
    storageMode,     \* how localStorage behaves in this browser
    store,           \* localStorage[SESSION_KEY]
    now,             \* the wall clock read by new Date()
    calls,           \* every registerPlayer/startSession/endSession call made
    _started,        \* the lifecycle flag
    initPc,          \* position of initIntegration
    listeners,       \* events on which doStart is still registered
    endHandlers,     \* visibilitychange/beforeunload handlers installed
    BGIntegration,   \* window.BGIntegration exposed
    visibilityState, \* document.visibilityState
    budget,          \* events the user and the embedding game may still produce
    callLimit,       \* calls the page load may make in all
    lastWrite,       \* the last saveSession/clearSession and what it did
    loaded           \* what the last BGIntegration.loadSession() gave

vars == <<variant, retries, tg_uid, sdk, tgWebAppData, storageMode, store, now,
          calls, _started, initPc, listeners, endHandlers, BGIntegration,
          visibilityState, budget, callLimit, lastWrite, loaded>>

env == <<variant, retries, tg_uid, sdk, tgWebAppData, storageMode, callLimit>>

(***************************************************************************)
(* Bounds                                                                  *)
(***************************************************************************)
MaxRetries == 2
MaxCalls == 3
MaxClock == 1
MaxInputs == 2

(***************************************************************************)
(* JavaScript values                                                       *)
(***************************************************************************)
Null == [t |-> "null"]
Undefined == [t |-> "undefined"]
NaN == [t |-> "NaN"]
Num(n) == [t |-> "number", v |-> n]
Str(s) == [t |-> "string", v |-> s]
Obj(f) == [t |-> "object", f |-> f]

\* ToBoolean
Truthy(x) ==
    CASE x.t = "null" -> FALSE
      [] x.t = "undefined" -> FALSE
      [] x.t = "NaN" -> FALSE
      [] x.t = "number" -> x.v # 0
      [] x.t = "string" -> x.v # ""
      [] OTHER -> TRUE

\* a || b
Or(a, b) == IF Truthy(a) THEN a ELSE b

\* a ?? b
Coalesce(a, b) == IF a.t \in {"null", "undefined"} THEN b ELSE a

\* o?.k
Get(o, k) ==
    IF o.t = "object" /\ k \in DOMAIN o.f THEN o.f[k] ELSE Undefined

(***************************************************************************)
(* JSON text is a sequence of tokens.                                      *)
(***************************************************************************)
\* a scalar as JSON text
StringifyScalar(x) ==
    CASE x.t = "null" -> <<"null">>
      [] x.t = "string" -> <<"\"", x.v, "\"">>

RECURSIVE StringifyMembers(_, _)
\* the member k of f, followed by the members named in rest
StringifyMember(f, k, rest) ==
    <<"\"", k, "\"", ":">> \o StringifyScalar(f[k])
    \o (IF rest = {} THEN <<>> ELSE <<",">>)
    \o StringifyMembers(f, rest)

StringifyFrom(f, keys, k) == StringifyMember(f, k, keys \ {k})

StringifyMembers(f, keys) ==
    IF keys = {} THEN <<>>
    ELSE StringifyFrom(f, keys, CHOOSE x \in keys : TRUE)

StringifyValue(x) ==
    IF x.t = "object"
    THEN <<"{">> \o StringifyMembers(x.f, DOMAIN x.f) \o <<"}">>
    ELSE StringifyScalar(x)

JSONstringify(x) == StringifyValue(x)

SyntaxError == [ok |-> FALSE, val |-> Undefined, rest |-> <<>>]

\* decimal digits and their values
Digits == <<"0", "1", "2", "3", "4", "5", "6", "7", "8", "9">>

IsDigit(c) == \E i \in 1..Len(Digits) : Digits[i] = c

DigitVal(c) == (CHOOSE i \in 1..Len(Digits) : Digits[i] = c) - 1

\* a scalar at the head of toks
ParseScalar(toks) ==
    IF Len(toks) >= 1 /\ toks[1] = "null"
    THEN [ok |-> TRUE, val |-> Null, rest |-> Tail(toks)]
    ELSE IF Len(toks) >= 1 /\ IsDigit(toks[1])
    THEN [ok |-> TRUE, val |-> Num(DigitVal(toks[1])), rest |-> Tail(toks)]
    ELSE IF Len(toks) >= 3 /\ toks[1] = "\"" /\ toks[3] = "\""
              /\ toks[2] \notin {"\"", "{", "}", ":", ","}
    THEN [ok |-> TRUE, val |-> Str(toks[2]), rest |-> SubSeq(toks, 4, Len(toks))]
    ELSE SyntaxError

RECURSIVE ParseMembers(_, _)
\* after the value v of member k: a comma and more members, or the end
ParseAfterValue(k, v, acc) ==
    IF ~v.ok THEN SyntaxError
    ELSE IF Len(v.rest) >= 1 /\ v.rest[1] = ","
    THEN ParseMembers(Tail(v.rest), (k :> v.val) @@ acc)
    ELSE IF Len(v.rest) >= 1 /\ v.rest[1] = "}"
    THEN [ok |-> TRUE, val |-> Obj((k :> v.val) @@ acc), rest |-> Tail(v.rest)]
    ELSE SyntaxError

\* the members of an object, after the opening brace; acc is what was read
ParseMembers(toks, acc) ==
    IF Len(toks) >= 4 /\ toks[1] = "\"" /\ toks[3] = "\"" /\ toks[4] = ":"
    THEN ParseAfterValue(toks[2], ParseScalar(SubSeq(toks, 5, Len(toks))), acc)
    ELSE SyntaxError

EmptyFields == [x \in {} |-> Null]

ParseValue(toks) ==
    IF Len(toks) >= 2 /\ toks[1] = "{" /\ toks[2] = "}"
    THEN [ok |-> TRUE, val |-> Obj(EmptyFields), rest |-> SubSeq(toks, 3, Len(toks))]
    ELSE IF Len(toks) >= 1 /\ toks[1] = "{"
    THEN ParseMembers(Tail(toks), EmptyFields)
    ELSE ParseScalar(toks)

\* nothing may follow the value
ParseWhole(r) == IF r.ok /\ r.rest = <<>> THEN r ELSE SyntaxError

\* JSON.parse: ok = FALSE is a thrown SyntaxError
JSONparse(toks) == ParseWhole(ParseValue(toks))

(***************************************************************************)
(* localStorage and the session record                                     *)
(***************************************************************************)
NoItem == [has |-> FALSE, text |-> <<>>]
Item(text) == [has |-> TRUE, text |-> text]

\* localStorage.setItem(SESSION_KEY, text)
setItem(st, text) ==
    IF storageMode = "ok"
    THEN [threw |-> FALSE, store |-> Item(text)]
    ELSE [threw |-> TRUE, store |-> st]

\* localStorage.getItem(SESSION_KEY)
getItem(st) ==
    IF storageMode = "disabled"
    THEN [threw |-> TRUE, val |-> NoItem]
    ELSE [threw |-> FALSE, val |-> st]

\* localStorage.removeItem(SESSION_KEY)
removeItem(st) ==
    IF storageMode = "disabled"
    THEN [threw |-> TRUE, store |-> st]
    ELSE [threw |-> FALSE, store |-> NoItem]

\* saveSession that adds the record to what is stored
saveSessionAppends(st, s) ==
    [raised |-> FALSE,
     store |-> setItem(st, st.text \o JSONstringify(s)).store]

\* saveSession that keeps a value already stored
saveSessionKeepFirst(st, s) ==
    [raised |-> FALSE,
     store |-> IF st.has THEN st ELSE setItem(st, JSONstringify(s)).store]

\* try { setItem(...) } catch {}
saveSession(st, s) ==
    [raised |-> FALSE, store |-> setItem(st, JSONstringify(s)).store]

\* getItem(SESSION_KEY) || "null", for what getItem returned
TextOrNull(item) ==
    IF item.has /\ item.text # <<>> THEN item.text ELSE <<"null">>

\* loadSession without the try
LoadResultNoCatch(g, p) ==
    IF g.threw \/ ~p.ok
    THEN [raised |-> TRUE, val |-> Undefined]
    ELSE [raised |-> FALSE, val |-> p.val]

\* try { return JSON.parse(...) } catch { return null }
LoadResult(g, p) ==
    IF g.threw \/ ~p.ok
    THEN [raised |-> FALSE, val |-> Null]
    ELSE [raised |-> FALSE, val |-> p.val]

loadSession(st) == LoadResult(getItem(st), JSONparse(TextOrNull(getItem(st).val)))

\* clearSession that removes nothing
clearSessionKeeps(st) == [raised |-> FALSE, store |-> st]

\* try { removeItem(...) } catch {}
clearSession(st) ==
    [raised |-> FALSE, store |-> removeItem(st).store]

\* the record startSession saves
SessionRecord(id, started_at) == Obj([k \in {"id", "started_at"} |->
                                       IF k = "id" THEN id ELSE started_at])

(***************************************************************************)
(* Identity resolution                                                     *)
(***************************************************************************)
NoParam == [has |-> FALSE, chars |-> <<>>]
Param(chars) == [has |-> TRUE, chars |-> chars]

\* Number(string) for a non-empty string
RECURSIVE DecimalValue(_)
DecimalValue(chars) ==
    IF chars = <<>> THEN 0
    ELSE 10 * DecimalValue(SubSeq(chars, 1, Len(chars) - 1)) + DigitVal(chars[Len(chars)])

Number(chars) ==
    IF \A i \in 1..Len(chars) : IsDigit(chars[i])
    THEN Num(DecimalValue(chars))
    ELSE NaN

\* val("tg_uid")
uidRaw == IF ~tg_uid.has \/ tg_uid.chars = <<>> THEN Null ELSE Str(tg_uid.chars)

\* getURLParams().uid
URLuid == IF uidRaw.t = "string" THEN Number(uidRaw.v) ELSE Null

\* decodeURIComponent: ok = FALSE is a thrown URIError
Escapes == <<"%7B", "%7D", "%22", "%3A", "%2C">>
Unescaped == <<"{", "}", "\"", ":", ",">>

DecodeToken(c) ==
    IF \E i \in 1..Len(Escapes) : Escapes[i] = c
    THEN Unescaped[CHOOSE i \in 1..Len(Escapes) : Escapes[i] = c]
    ELSE c

decodeURIComponent(chars) ==
    IF \E i \in 1..Len(chars) : chars[i] = "%"
    THEN [ok |-> FALSE, val |-> <<>>]
    ELSE [ok |-> TRUE, val |-> [i \in 1..Len(chars) |-> DecodeToken(chars[i])]]

\* where the first pair of text ends
PairEnd(text) ==
    IF \E i \in 1..Len(text) : text[i] = "&"
    THEN CHOOSE i \in 1..Len(text) : text[i] = "&" /\ \A j \in 1..(i - 1) : text[j] # "&"
    ELSE Len(text) + 1

RECURSIVE SearchParamsGet(_, _)
SearchInPair(text, key, amp) ==
    IF amp >= 3 /\ text[1] = key /\ text[2] = "="
    THEN Str(SubSeq(text, 3, amp - 1))
    ELSE SearchParamsGet(SubSeq(text, amp + 1, Len(text)), key)

\* new URLSearchParams(text).get(key): the value of the first key=value pair
SearchParamsGet(text, key) ==
    IF text = <<>> THEN Null ELSE SearchInPair(text, key, PairEnd(text))

\* let user = null; if (userStr) { try { user = JSON.parse(userStr) } catch {} }
ParseUser(userStr) ==
    IF userStr.t = "string" /\ userStr.v # <<>> /\ JSONparse(userStr.v).ok
    THEN JSONparse(userStr.v).val
    ELSE Null

ParseDecoded(decoded) ==
    IF ~decoded.ok THEN Null
    ELSE Obj([k \in {"user"} |-> ParseUser(SearchParamsGet(decoded.val, "user"))])

parseInitDataFromURL ==
    IF ~tgWebAppData.has \/ tgWebAppData.chars = <<>> THEN Null
    ELSE ParseDecoded(decodeURIComponent(tgWebAppData.chars))

\* what a context object carries: the SDK handle and the user
Context(tg, user) == Obj([k \in {"tg", "user"} |-> IF k = "tg" THEN tg ELSE user])

\* ContextFromURL without the test of parsed.user
ContextFromURLAnyUser(parsed) ==
    IF Truthy(parsed) THEN Context(Null, Get(parsed, "user")) ELSE Null

\* the context when no SDK is reachable
ContextFromURL(parsed) ==
    IF Truthy(parsed) /\ Truthy(Get(parsed, "user"))
    THEN Context(Null, Get(parsed, "user"))
    ELSE Null

getTelegramContext ==
    IF ~Truthy(sdk)
    THEN IF variant = "bg-integration.js" THEN Null
         ELSE ContextFromURL(parseInitDataFromURL)
    ELSE Context(sdk, Or(Get(Or(Get(sdk, "initDataUnsafe"), Obj(EmptyFields)), "user"),
                         Null))

\* u?.id ?? 0
IdOrZero(u) == Coalesce(Get(u, "id"), Num(0))

\* buildRegisterPayload().telegram_id
buildRegisterPayload ==
    IF variant = "bg-integration.js"
    THEN IdOrZero(Or(Get(getTelegramContext, "user"), Null))
    ELSE IF Truthy(URLuid) THEN URLuid
    ELSE IdOrZero(Or(Get(Get(sdk, "initDataUnsafe"), "user"), Null))

(***************************************************************************)
(* The three API calls                                                     *)
(***************************************************************************)
IsoStrings == <<"T0", "T1", "T2", "T3", "T4", "T5", "T6", "T7", "T8", "T9">>

\* new Date().toISOString()
toISOString(t) == Str(IsoStrings[t + 1])

\* the identifier the backend gives the session started by call c
SessionIds == <<"s1", "s2", "s3", "s4", "s5", "s6", "s7", "s8", "s9">>

NoRes == [got |-> FALSE, ok |-> FALSE, data |-> Null]

\* ctx?.user?.id ?? null
ContextUserId == Coalesce(Get(Get(getTelegramContext, "user"), "id"), Null)

\* payload.telegram_id of startSession and endSession
SessionTelegramId ==
    IF variant = "part_003" THEN buildRegisterPayload ELSE ContextUserId

\* session?.id without the ?? null
SessionIdOfNoCoalesce(session) == Get(session, "id")

\* session?.id ?? null
SessionIdOf(session) == Coalesce(Get(session, "id"), Null)

\* a call up to its first await: the payload is built and fetch is invoked
NewCall(fn, by, st) ==
    [fn |-> fn, by |-> by,
     telegram_id |-> IF fn = "registerPlayer" THEN buildRegisterPayload
                     ELSE SessionTelegramId,
     session |-> IF fn = "endSession" THEN loadSession(st).val ELSE Null,
     session_id |-> IF fn = "endSession" THEN SessionIdOf(loadSession(st).val)
                    ELSE Null,
     at |-> toISOString(now),
     attempt |-> 0, fetches |-> 1, failed |-> 0, pc |-> "fetch", error |-> "none",
     res |-> NoRes, outcome |-> "pending", caught |-> "none"]

\* fetchFailed giving up one attempt early
fetchFailedEarly(call) ==
    IF call.attempt + 1 >= retries THEN "throw" ELSE "retry"

\* the catch block and loop head of fetchWithTimeout after a failed attempt
fetchFailed(call) ==
    IF call.attempt = retries THEN "throw"
    ELSE IF call.attempt + 1 <= retries THEN "retry"
    ELSE "fall through"

Events == {"pointerdown", "keydown", "touchstart"}

\* doStart without the _started guard
doStartUnguarded(cs) ==
    [started |-> TRUE,
     calls |-> Append(cs, NewCall("startSession", "doStart", store))]

\* doStart, given the calls made so far
doStart(cs) ==
    IF _started THEN [started |-> TRUE, calls |-> cs]
    ELSE [started |-> TRUE,
          calls |-> Append(cs, NewCall("startSession", "doStart", store))]

\* doStart calling startSession() without its try
CatcherBareDoStart(call) ==
    IF call.by = "initIntegration" THEN "initIntegration"
    ELSE IF call.by = "BGIntegration" THEN "caller"
    ELSE "nobody"

\* who receives the rejection of a call: the catch of initIntegration
\* around await registerPlayer(), the try of doStart around await
\* startSession(), the game that called window.BGIntegration, and nobody for
\* the un-awaited calls of the visibilitychange and beforeunload handlers
Catcher(call) ==
    IF call.by = "initIntegration" THEN "initIntegration"
    ELSE IF call.by = "doStart" THEN "doStart"
    ELSE IF call.by = "BGIntegration" THEN "caller"
    ELSE "nobody"

\* call c returns or throws
Settle(cs, c, outcome) ==
    IF outcome = "pending" THEN cs
    ELSE [cs EXCEPT ![c].pc = "done", ![c].outcome = outcome,
                    ![c].caught = IF outcome = "raised" THEN Catcher(cs[c])
                                  ELSE "none"]

\* Resume of an initIntegration that catches the failure of registerPlayer
\* on the spot and goes on
ResumeInstallsAnyway(cs, c, outcome) ==
    IF cs[c].by = "initIntegration" /\ outcome # "pending"
    THEN /\ calls' = doStart(Settle(cs, c, outcome)).calls
         /\ _started' = TRUE
         /\ listeners' = Events
         /\ endHandlers' = TRUE
         /\ BGIntegration' = TRUE
         /\ initPc' = "initialized"
    ELSE /\ calls' = Settle(cs, c, outcome)
         /\ UNCHANGED <<initPc, _started, listeners, endHandlers, BGIntegration>>

\* Resume whose doStart gives up _started when its startSession fails
ResumeResetsStarted(cs, c, outcome) ==
    IF cs[c].by = "initIntegration" /\ outcome = "returned"
    THEN /\ calls' = doStart(Settle(cs, c, outcome)).calls
         /\ _started' = TRUE
         /\ listeners' = Events
         /\ endHandlers' = TRUE
         /\ BGIntegration' = TRUE
         /\ initPc' = "initialized"
    ELSE /\ calls' = Settle(cs, c, outcome)
         /\ initPc' = IF cs[c].by = "initIntegration" /\ outcome = "raised"
                      THEN "failed" ELSE initPc
         /\ _started' = IF cs[c].by = "doStart" /\ outcome = "raised"
                        THEN FALSE ELSE _started
         /\ UNCHANGED <<listeners, endHandlers, BGIntegration>>

\* what follows a step of call c that left it with this outcome: when the
\* call initIntegration awaits completes, initIntegration resumes; any
\* other caller has nothing left to do
Resume(cs, c, outcome) ==
    IF cs[c].by = "initIntegration" /\ outcome = "returned"
    THEN /\ calls' = doStart(Settle(cs, c, outcome)).calls
         /\ _started' = TRUE
         /\ listeners' = Events
         /\ endHandlers' = TRUE
         /\ BGIntegration' = TRUE
         /\ initPc' = "initialized"
    ELSE /\ calls' = Settle(cs, c, outcome)
         /\ initPc' = IF cs[c].by = "initIntegration" /\ outcome = "raised"
                      THEN "failed" ELSE initPc
         /\ UNCHANGED <<_started, listeners, endHandlers, BGIntegration>>

\* endSession after its fetchWithTimeout settled: clearSession
EndClear(c, settled) ==
    IF settled
    THEN /\ store' = clearSession(store).store
         /\ lastWrite' = [op |-> "clearSession", x |-> Null, before |-> store,
                          after |-> clearSession(store).store,
                          raised |-> clearSession(store).raised, by |-> c]
    ELSE UNCHANGED <<store, lastWrite>>

\* endSession without the .catch()
FailureOutcomePropagates(call) == "raised"

\* how a call ends when its fetchWithTimeout raised: endSession swallows the
\* error in .catch(), registerPlayer and startSession let it through
FailureOutcome(call) ==
    IF call.fn = "endSession" THEN "returned" ELSE "raised"

\* fetchRetried when the controller's signal is not given to fetch: the
\* timer's abort cancels nothing
fetchRetriedAbortUnwired(call, e, next) ==
    IF e = "abort" THEN call
    ELSE IF next = "retry"
    THEN [call EXCEPT !.attempt = call.attempt + 1, !.fetches = call.fetches + 1,
                      !.failed = call.failed + 1]
    ELSE [call EXCEPT !.failed = call.failed + 1,
                      !.error = IF next = "throw" THEN e ELSE "TypeError"]

\* fetchWithTimeout of a call whose attempt failed with error e
fetchRetried(call, e, next) ==
    IF next = "retry"
    THEN [call EXCEPT !.attempt = call.attempt + 1, !.fetches = call.fetches + 1,
                      !.failed = call.failed + 1]
    ELSE [call EXCEPT !.failed = call.failed + 1,
                      !.error = IF next = "throw" THEN e ELSE "TypeError"]

\* a fetch attempt of call c failed with error e
FetchFails(c, e) ==
    /\ c \in 1..Len(calls)
    /\ calls[c].pc = "fetch"
    /\ EndClear(c, fetchFailed(calls[c]) # "retry" /\ calls[c].fn = "endSession")
    /\ Resume([calls EXCEPT ![c] = fetchRetried(calls[c], e, fetchFailed(calls[c]))], c,
              IF fetchFailed(calls[c]) = "retry" THEN "pending"
              ELSE FailureOutcome(calls[c]))
    /\ UNCHANGED <<env, now, visibilityState, budget, loaded>>

\* fetch rejects: the network is down
NetworkError(c) == FetchFails(c, "network")

\* the attempt's timer fires before fetch settles and aborts it
TimerFires(c) == FetchFails(c, "abort")

\* the JSON bodies the backend may answer to call c with status ok: only
\* startSession reads fields of the body, and only of a 2xx response
ResponseData(c, ok) ==
    IF ok /\ calls[c].fn = "startSession"
    THEN {Obj([k \in {"session_id"} |-> Str(SessionIds[c])]),
          Obj([k \in {"id"} |-> Str(SessionIds[c])]),
          Obj(EmptyFields)}
    ELSE {Obj(EmptyFields)}

\* fetchReturned without the return: the loop goes on to the next attempt
fetchReturnedNoReturn(call, res) ==
    [call EXCEPT !.res = res, !.attempt = call.attempt + 1,
                 !.fetches = call.fetches + 1]

\* fetchReturned whose caller does not test res.ok
fetchReturnedIgnoresStatus(call, res) ==
    [call EXCEPT !.res = res, !.pc = "json"]

\* fetchReturned that treats a non-2xx response as a failed attempt
fetchReturnedRetriesStatus(call, res) ==
    IF res.ok \/ call.attempt = retries
    THEN [call EXCEPT !.res = res, !.pc = IF res.ok THEN "json" ELSE "text"]
    ELSE [call EXCEPT !.attempt = call.attempt + 1, !.fetches = call.fetches + 1]

\* try { const res = await fetch(...); clearTimeout(id); return res; }
fetchReturned(call, res) ==
    [call EXCEPT !.res = res, !.pc = IF res.ok THEN "json" ELSE "text"]

\* fetch resolves with a response; endSession clears the session and reads
\* on only when the status is not 2xx
FetchResponse(c) ==
    /\ c \in 1..Len(calls)
    /\ calls[c].pc = "fetch"
    /\ EndClear(c, calls[c].fn = "endSession")
    /\ \E ok \in BOOLEAN : \E data \in ResponseData(c, ok) :
         Resume([calls EXCEPT ![c] = fetchReturned(calls[c], [got |-> TRUE, ok |-> ok,
                                                              data |-> data])],
                c, IF calls[c].fn = "endSession" /\ ok THEN "returned" ELSE "pending")
    /\ UNCHANGED <<env, now, visibilityState, budget, loaded>>

\* res.text() of a non-2xx response settles
BodyText(c) ==
    /\ c \in 1..Len(calls)
    /\ calls[c].pc = "text"
    /\ Resume(calls, c, IF calls[c].fn = "endSession" THEN "returned" ELSE "raised")
    /\ UNCHANGED <<env, now, visibilityState, budget, loaded, store, lastWrite>>

\* started_at of the record startSession saves
SavedStartedAt(call) ==
    IF variant = "part_003" THEN toISOString(now) ELSE call.at

\* data.session_id || data.id || null
SavedId(data) == Or(Or(Get(data, "session_id"), Get(data, "id")), Null)

\* the record startSession saves for call
SavedRecord(call) == SessionRecord(SavedId(call.res.data), SavedStartedAt(call))

\* what saveSession of call c did
SaveWrite(c, rec, r) ==
    [op |-> "saveSession", x |-> rec, before |-> store, after |-> r.store,
     raised |-> r.raised, by |-> c]

\* res.json() of a 2xx response settles; startSession saves the session
BodyJson(c) ==
    /\ c \in 1..Len(calls)
    /\ calls[c].pc = "json"
    /\ IF calls[c].fn = "startSession"
       THEN /\ store' = saveSession(store, SavedRecord(calls[c])).store
            /\ lastWrite' = SaveWrite(c, SavedRecord(calls[c]),
                                      saveSession(store, SavedRecord(calls[c])))
       ELSE UNCHANGED <<store, lastWrite>>
    /\ Resume(calls, c, "returned")
    /\ UNCHANGED <<env, now, visibilityState, budget, loaded>>

(***************************************************************************)
(* Lifecycle wiring and the page's events                                  *)
(***************************************************************************)
\* initIntegration that starts the session before it registers
initIntegrationStartsFirst ==
    /\ initPc = "loading"
    /\ initPc' = "registering"
    /\ calls' = Append(doStart(calls).calls,
                       NewCall("registerPlayer", "initIntegration", store))
    /\ _started' = TRUE
    /\ UNCHANGED <<env, store, now, listeners, endHandlers, BGIntegration,
                   visibilityState, budget, lastWrite, loaded>>

\* initIntegration runs (at once, or on DOMContentLoaded) up to its await
\* of registerPlayer
initIntegration ==
    /\ initPc = "loading"
    /\ initPc' = "registering"
    /\ calls' = Append(calls, NewCall("registerPlayer", "initIntegration", store))
    /\ UNCHANGED <<env, store, now, _started, listeners, endHandlers, BGIntegration,
                   visibilityState, budget, lastWrite, loaded>>

\* one more event from outside the script
Input ==
    /\ budget > 0
    /\ budget' = budget - 1

\* a first pointerdown, keydown or touchstart: the listener is { once: true }
Gesture(evt) ==
    /\ evt \in listeners
    /\ Input
    /\ listeners' = listeners \ {evt}
    /\ calls' = doStart(calls).calls
    /\ _started' = doStart(calls).started
    /\ UNCHANGED <<env, store, now, initPc, endHandlers, BGIntegration,
                   visibilityState, lastWrite, loaded>>

\* document.visibilityState changes; the handler ends the session when hidden
visibilitychange ==
    /\ Input
    /\ Len(calls) < callLimit
    /\ visibilityState' = IF visibilityState = "visible" THEN "hidden" ELSE "visible"
    /\ calls' = IF endHandlers /\ visibilityState' = "hidden"
                THEN Append(calls, NewCall("endSession", "visibilitychange", store))
                ELSE calls
    /\ UNCHANGED <<env, store, now, _started, initPc, listeners, endHandlers,
                   BGIntegration, lastWrite, loaded>>

beforeunload ==
    /\ endHandlers
    /\ Input
    /\ Len(calls) < callLimit
    /\ calls' = Append(calls, NewCall("endSession", "beforeunload", store))
    /\ UNCHANGED <<env, store, now, _started, initPc, listeners, endHandlers,
                   BGIntegration, visibilityState, lastWrite, loaded>>

\* the embedding game calls window.BGIntegration.<fn>()
ApiCall(fn) ==
    /\ BGIntegration
    /\ Input
    /\ Len(calls) < callLimit
    /\ calls' = Append(calls, NewCall(fn, "BGIntegration", store))
    /\ UNCHANGED <<env, store, now, _started, initPc, listeners, endHandlers,
                   BGIntegration, visibilityState, lastWrite, loaded>>

ApiStartSession == ApiCall("startSession")

ApiEndSession == ApiCall("endSession")

ApiRegisterPlayer == ApiCall("registerPlayer")

ApiLoadSession ==
    /\ BGIntegration
    /\ Input
    /\ loaded' = [called |-> TRUE, val |-> loadSession(store).val,
                  raised |-> loadSession(store).raised, from |-> store]
    /\ UNCHANGED <<env, store, now, calls, _started, initPc, listeners, endHandlers,
                   BGIntegration, visibilityState, lastWrite>>

\* time passes
Tick ==
    /\ now < MaxClock
    /\ Input
    /\ now' = now + 1
    /\ UNCHANGED <<env, store, calls, _started, initPc, listeners, endHandlers,
                   BGIntegration, visibilityState, lastWrite, loaded>>

(***************************************************************************)
(* The page load                                                           *)
(***************************************************************************)
Variants == {"bg-integration.js", "part_002", "part_003"}

RETRIES == 1

\* values of the tg_uid query parameter
UidParams == {NoParam, Param(<<>>), Param(<<"a">>), Param(<<"0">>), Param(<<"7">>)}

\* window.Telegram.WebApp: none, one without a user, one with user 9
SdkUser9 == Obj([k \in {"initDataUnsafe"} |->
                   Obj([u \in {"user"} |-> Obj([i \in {"id"} |-> Num(9)])])])
Sdks == {Null, Obj([k \in {"initDataUnsafe"} |-> Obj(EmptyFields)]), SdkUser9}

\* values of the tgWebAppData query parameter: none, one that does not
\* decode, one whose user is not JSON, one without a user, one with user 5
BlobUser5 == Param(<<"user", "=", "%7B", "%22", "id", "%22", "%3A", "5", "%7D",
                     "&", "hash", "=", "h">>)
Blobs == {NoParam, Param(<<"user", "=", "%">>), Param(<<"user", "=", "%7B", "x">>),
          Param(<<"hash", "=", "h">>), BlobUser5}

StorageModes == {"ok", "disabled", "quota"}

\* what an earlier page load may have left under SESSION_KEY
LeftOver == Item(JSONstringify(SessionRecord(Str("s0"), Str("T0"))))
Corrupt == Item(<<"{", "\"", "id">>)
InitialStores == {NoItem, LeftOver, Corrupt, Item(<<>>)}

NoWrite == [op |-> "none", x |-> Null, before |-> NoItem, after |-> NoItem,
            raised |-> FALSE, by |-> 0]
NotLoaded == [called |-> FALSE, val |-> Null, raised |-> FALSE, from |-> NoItem]

InitPage ==
    /\ now = 0
    /\ calls = <<>>
    /\ _started = FALSE
    /\ initPc = "loading"
    /\ listeners = {}
    /\ endHandlers = FALSE
    /\ BGIntegration = FALSE
    /\ visibilityState = "visible"
    /\ lastWrite = NoWrite
    /\ loaded = NotLoaded

Init ==
    /\ variant \in Variants
    /\ retries = RETRIES
    /\ tg_uid = NoParam
    /\ sdk = SdkUser9
    /\ tgWebAppData = NoParam
    /\ storageMode = "ok"
    /\ store \in {NoItem, LeftOver}
    /\ budget = MaxInputs
    /\ callLimit = MaxCalls
    /\ InitPage

Next ==
    \/ initIntegration
    \/ \E c \in 1..Len(calls) : NetworkError(c)
    \/ \E c \in 1..Len(calls) : TimerFires(c)
    \/ \E c \in 1..Len(calls) : FetchResponse(c)
    \/ \E c \in 1..Len(calls) : BodyText(c)
    \/ \E c \in 1..Len(calls) : BodyJson(c)
    \/ \E evt \in Events : Gesture(evt)
    \/ visibilitychange
    \/ beforeunload
    \/ ApiStartSession
    \/ ApiEndSession
    \/ ApiRegisterPlayer
    \/ ApiLoadSession
    \/ Tick

Spec == Init /\ [][Next]_vars

\* the page load without any event from the user or the embedding game
NextFetch ==
    \/ initIntegration
    \/ \E c \in 1..Len(calls) : NetworkError(c)
    \/ \E c \in 1..Len(calls) : TimerFires(c)
    \/ \E c \in 1..Len(calls) : FetchResponse(c)
    \/ \E c \in 1..Len(calls) : BodyText(c)
    \/ \E c \in 1..Len(calls) : BodyJson(c)

\* every retry count the configuration may set
InitFetch ==
    /\ variant \in Variants
    /\ retries \in 0..MaxRetries
    /\ tg_uid = NoParam
    /\ sdk = SdkUser9
    /\ tgWebAppData = NoParam
    /\ storageMode = "ok"
    /\ store = NoItem
    /\ budget = 0
    /\ callLimit = MaxCalls
    /\ InitPage

SpecFetch == InitFetch /\ [][NextFetch]_vars

\* setTimeout: the timer of an attempt that has not settled does fire; the
\* transport itself owes nothing
TimersFire == \A c \in 1..MaxCalls : WF_vars(TimerFires(c))

SpecFetchLive == InitFetch /\ [][NextFetch]_vars /\ TimersFire

\* every behaviour of localStorage and everything it may hold at load
InitStorage ==
    /\ variant \in Variants
    /\ retries = RETRIES
    /\ tg_uid = NoParam
    /\ sdk = SdkUser9
    /\ tgWebAppData = NoParam
    /\ storageMode \in StorageModes
    /\ store \in InitialStores
    /\ budget = 1
    /\ callLimit = MaxCalls
    /\ InitPage

SpecStorage == InitStorage /\ [][Next]_vars

\* every combination of the identity sources
InitIdentity ==
    /\ variant \in Variants
    /\ retries = RETRIES
    /\ tg_uid \in UidParams
    /\ sdk \in Sdks
    /\ tgWebAppData \in Blobs
    /\ storageMode = "ok"
    /\ store = NoItem
    /\ budget = 1
    /\ callLimit = MaxCalls
    /\ InitPage

SpecIdentity == InitIdentity /\ [][Next]_vars

\* the page being hidden, unloaded and ended by the game, one call more
NextEnd ==
    \/ initIntegration
    \/ \E c \in 1..Len(calls) : NetworkError(c)
    \/ \E c \in 1..Len(calls) : TimerFires(c)
    \/ \E c \in 1..Len(calls) : FetchResponse(c)
    \/ \E c \in 1..Len(calls) : BodyText(c)
    \/ \E c \in 1..Len(calls) : BodyJson(c)
    \/ visibilitychange
    \/ beforeunload
    \/ ApiEndSession

InitEnd ==
    /\ variant \in Variants
    /\ retries = RETRIES
    /\ tg_uid = NoParam
    /\ sdk = SdkUser9
    /\ tgWebAppData = NoParam
    /\ storageMode = "ok"
    /\ store \in {NoItem, LeftOver}
    /\ budget = MaxInputs
    /\ callLimit = MaxCalls + 1
    /\ InitPage

SpecEnd == InitEnd /\ [][NextEnd]_vars

TypeOK ==
    /\ now \in 0..MaxClock
    /\ Len(calls) <= callLimit
    /\ callLimit \in MaxCalls..(MaxCalls + 1)
    /\ budget \in 0..MaxInputs
    /\ initPc \in {"loading", "registering", "initialized", "failed"}

(***************************************************************************)
(* Properties                                                              *)
(***************************************************************************)
Calls == 1..Len(calls)

TransportErrors == {"network", "abort"}

\* C1: when every attempt of a call fails in transport, fetchWithTimeout
\* makes exactly retries + 1 attempts and then raises the last failure: no
\* call makes more attempts, and none has raised while attempts remain.
C1_ExactlyRetriesPlusOneAttempts ==
    \A c \in Calls :
        /\ calls[c].fetches <= retries + 1
        /\ calls[c].pc = "fetch" =>
              /\ calls[c].error = "none"
              /\ calls[c].fetches = calls[c].failed + 1
        /\ (calls[c].pc # "fetch" /\ ~calls[c].res.got) =>
              /\ calls[c].fetches = retries + 1
              /\ calls[c].failed = retries + 1
              /\ calls[c].error \in TransportErrors
              /\ calls[c].outcome = "raised"

C1_Witness ==
    \E c \in Calls :
        /\ retries = MaxRetries
        /\ calls[c].error \in TransportErrors
        /\ calls[c].fetches = MaxRetries + 1
        /\ calls[c].outcome = "raised"

\* C2: when the transport fails on attempts 1..k-1 and answers on attempt
\* k <= retries + 1, fetchWithTimeout makes exactly k attempts, returns the
\* response and raises nothing.
C2_SuccessOnAttemptK ==
    \A c \in Calls :
        calls[c].res.got =>
            /\ calls[c].fetches = calls[c].failed + 1
            /\ calls[c].fetches <= retries + 1
            /\ calls[c].pc # "fetch"
            /\ calls[c].error = "none"
            /\ calls[c].outcome = "raised" => ~calls[c].res.ok

C2_Witness ==
    \E c \in Calls :
        /\ retries = MaxRetries
        /\ calls[c].res.got
        /\ calls[c].failed = MaxRetries
        /\ calls[c].fetches = MaxRetries + 1
        /\ calls[c].outcome = "returned"

\* the start-session calls the lifecycle wiring made
StartsByDoStart == {c \in Calls : calls[c].fn = "startSession" /\ calls[c].by = "doStart"}

\* C3: whatever triggers fire and in whatever order, the lifecycle wiring
\* issues the start-session call exactly once: the first trigger (the
\* immediate invocation) performs it and every later gesture is a no-op.
C3_StartIssuedOnce ==
    Cardinality(StartsByDoStart) = IF initPc = "initialized" THEN 1 ELSE 0

C3_Witness ==
    /\ initPc = "initialized"
    /\ Cardinality(listeners) = 1
    /\ Cardinality(StartsByDoStart) = 1

\* C4: a failed register-player call during initialization does not block
\* the start attempt: a start-session call is still issued.
C4_FailedRegisterStillStarts ==
    initPc = "failed" => \E c \in Calls : calls[c].fn = "startSession"

\* C5: after a startSession call received a 2xx response carrying a session
\* identifier, loadSession() returns the record with that id and with the
\* timestamp captured when the start call was issued.
C5_StartedAtIsCallTime ==
    (lastWrite.op = "saveSession"
        /\ Truthy(SavedId(calls[lastWrite.by].res.data))) =>
      loadSession(store).val = SessionRecord(SavedId(calls[lastWrite.by].res.data),
                                             calls[lastWrite.by].at)

\* C6: an endSession call invoked while storage holds no session record
\* sends session_id null, does not raise, and once it has cleared the
\* session storage is absent (until a startSession saves again), whatever
\* the outcome of its request.
C6_EndWithoutSession ==
    \A c \in Calls :
        (calls[c].fn = "endSession" /\ calls[c].session = Null) =>
            /\ calls[c].session_id = Null
            /\ calls[c].outcome # "raised"
            /\ (calls[c].pc \in {"text", "done"} /\ lastWrite.op = "clearSession") =>
                  /\ store = NoItem
                  /\ loadSession(store).val = Null

C6_Witness ==
    \E c \in Calls :
        /\ calls[c].fn = "endSession"
        /\ calls[c].session = Null
        /\ calls[c].pc = "done"
        /\ calls[c].error \in TransportErrors
        /\ lastWrite.op = "clearSession"
        /\ lastWrite.by = c
        /\ lastWrite.before = NoItem

\* C7: endSession never raises to its caller, whatever storage holds and
\* however its request ends.
C7_EndSessionNeverRaises ==
    \A c \in Calls : calls[c].fn = "endSession" => calls[c].outcome # "raised"

C7_Witness ==
    \E c \in Calls :
        /\ calls[c].fn = "endSession"
        /\ calls[c].pc = "done"
        /\ calls[c].outcome = "returned"
        /\ calls[c].error \in TransportErrors
        /\ storageMode = "disabled"

\* C8: with working storage, loadSession() gives the record of the last
\* saveSession, gives null after clearSession, and clearSession leaves
\* absent storage absent.
C8_SaveLoadClearRoundTrip ==
    storageMode = "ok" =>
        /\ lastWrite.op = "saveSession" => loadSession(store).val = lastWrite.x
        /\ lastWrite.op = "clearSession" =>
              /\ loadSession(store).val = Null
              /\ lastWrite.before = NoItem => store = NoItem

C8_Witness ==
    /\ storageMode = "ok"
    /\ lastWrite.op = "saveSession"
    /\ lastWrite.before # NoItem
    /\ loaded.called
    /\ loaded.from = store
    /\ loaded.val = lastWrite.x

\* C9: no session-storage operation raises: a save that cannot write
\* changes nothing, a clear completes, and a load from disabled storage or
\* of unparsable content gives null.
C9_StorageNeverRaises ==
    /\ ~lastWrite.raised
    /\ ~loaded.raised
    /\ (lastWrite.op = "saveSession" /\ storageMode # "ok") =>
          lastWrite.after = lastWrite.before
    /\ (loaded.called /\ (storageMode = "disabled" \/ loaded.from = Corrupt)) =>
          loaded.val = Null

C9_Witness ==
    /\ storageMode = "ok"
    /\ loaded.called
    /\ loaded.from = Corrupt
    /\ loaded.val = Null
    /\ ~loaded.raised

\* C10: when the URL carries a valid numeric tg_uid, that id is the
\* telegram_id of the register, start-session and end-session requests,
\* host SDK or not (in the revisions that read tg_uid).
C10_UrlIdSentInEveryRequest ==
    (variant # "bg-integration.js" /\ Truthy(URLuid)) =>
        \A c \in Calls : calls[c].telegram_id = URLuid

\* C11: with no tg_uid parameter and no host SDK but a tgWebAppData blob
\* carrying the user 5, the embedded user's id is the telegram_id of the
\* register and session requests (in the revisions that read the blob).
C11_BlobIdSentInEveryRequest ==
    (variant # "bg-integration.js" /\ tg_uid = NoParam /\ sdk = Null
        /\ tgWebAppData = BlobUser5) =>
        \A c \in Calls : calls[c].telegram_id = Num(5)

\* C12: a non-2xx response is never retried: the attempt that received it
\* is the call's last, and registerPlayer and startSession read its body
\* and raise.
C12_Non2xxNotRetried ==
    \A c \in Calls :
        (calls[c].res.got /\ ~calls[c].res.ok) =>
            /\ calls[c].fetches = calls[c].failed + 1
            /\ calls[c].pc \in {"text", "done"}
            /\ calls[c].pc = "text" => calls[c].outcome = "pending"
            /\ (calls[c].pc = "done" /\ calls[c].fn # "endSession") =>
                  calls[c].outcome = "raised"

C12_Witness ==
    \E c \in Calls :
        /\ retries = MaxRetries
        /\ calls[c].fn = "startSession"
        /\ calls[c].res.got
        /\ ~calls[c].res.ok
        /\ calls[c].fetches = 1
        /\ calls[c].outcome = "raised"

IsSessionRecord(v) == v.t = "object" /\ DOMAIN v.f = {"id", "started_at"}

NullOrSessionRecord(v) == v = Null \/ IsSessionRecord(v)

ParsesToSessionRecord(p) == p.ok /\ IsSessionRecord(p.val)

\* C13: the storage key holds nothing or exactly one record {id,
\* started_at}: a save while a record exists replaces it, and loadSession()
\* gives {id, started_at} or null.
C13_AtMostOneRecord ==
    /\ store = NoItem \/ ParsesToSessionRecord(JSONparse(store.text))
    /\ NullOrSessionRecord(loadSession(store).val)
    /\ lastWrite.op = "saveSession" => store = Item(JSONstringify(lastWrite.x))

C13_Witness ==
    /\ lastWrite.op = "saveSession"
    /\ calls[lastWrite.by].by = "BGIntegration"
    /\ lastWrite.before \notin {NoItem, LeftOver}
    /\ store # lastWrite.before
    /\ IsSessionRecord(loadSession(store).val)

\* C14: no start-session request is issued before a register-player
\* request has been issued in the same page load.
C14_RegisterBeforeStart ==
    \A c \in Calls :
        calls[c].fn = "startSession" =>
            \E d \in 1..(c - 1) : calls[d].fn = "registerPlayer"

C14_Witness ==
    /\ Len(calls) >= 2
    /\ calls[1].fn = "registerPlayer"
    /\ calls[2].fn = "startSession"
    /\ calls[2].by = "doStart"

\* C15: once the transport call of an endSession has settled (2xx, non-2xx
\* or failed on every attempt), the record that was stored when endSession
\* was invoked is gone: storage is absent unless a startSession saved a new
\* record since.
C15_EndClearsUnconditionally ==
    \A c \in Calls :
        (calls[c].fn = "endSession" /\ calls[c].session # Null
            /\ calls[c].pc \in {"text", "done"}) =>
            store = NoItem \/ lastWrite.op = "saveSession"

C15_Witness ==
    \E c \in Calls :
        /\ calls[c].fn = "endSession"
        /\ calls[c].session # Null
        /\ calls[c].pc = "done"
        /\ calls[c].res.got
        /\ ~calls[c].res.ok
        /\ lastWrite.op = "clearSession"
        /\ lastWrite.before # NoItem
        /\ store = NoItem

\* C16: only a startSession that received a 2xx response writes the
\* session record: one that failed on every attempt or received a non-2xx
\* response has written nothing and raises.
C16_FailedStartWritesNothing ==
    \A c \in Calls :
        calls[c].fn = "startSession" =>
            /\ (lastWrite.op = "saveSession" /\ lastWrite.by = c) =>
                  (calls[c].res.got /\ calls[c].res.ok)
            /\ (calls[c].pc = "done" /\ ~(calls[c].res.got /\ calls[c].res.ok)) =>
                  calls[c].outcome = "raised"

C16_Witness ==
    \E c \in Calls :
        /\ calls[c].fn = "startSession"
        /\ calls[c].pc = "done"
        /\ calls[c].outcome = "raised"
        /\ calls[c].error \in TransportErrors
        /\ lastWrite.op = "none"
        /\ store = LeftOver

\* the end-session calls made so far
EndCalls == {c \in Calls : calls[c].fn = "endSession"}

\* C17: a stored session record is read by one end call only: of two
\* endSession calls, the later one does not send the session id the
\* earlier one sent, so each session id goes out in at most one end request.
C17_SessionIdInOneEndRequest ==
    \A c \in EndCalls : \A d \in EndCalls :
        (c < d /\ calls[c].session_id # Null) =>
            calls[d].session_id # calls[c].session_id

\* C18: the lifecycle state is monotonic: once _started is true it stays
\* true, through end calls and failed starts alike, and from then on the
\* lifecycle wiring issues no further start call.
C18_StartedStaysStarted ==
    [][_started => (_started' /\ StartsByDoStart' = StartsByDoStart)]_vars

C18_Witness ==
    /\ _started
    /\ Cardinality(listeners) = 2
    /\ Cardinality(StartsByDoStart) = 1
    /\ \E c \in StartsByDoStart : calls[c].outcome = "raised"
    /\ \E c \in EndCalls : calls[c].pc = "done"

\* C19: initIntegration never propagates a failure: a rejected register
\* call lands in its catch and initialization ends there, a rejected start
\* call of the un-awaited doStart lands in doStart's own try, and no call
\* made by the handlers it installs rejects unhandled.
C19_InitNeverPropagates ==
    \A c \in Calls :
        /\ calls[c].caught # "nobody"
        /\ calls[c].outcome = "raised" =>
              /\ calls[c].by = "initIntegration" =>
                    (calls[c].caught = "initIntegration" /\ initPc = "failed")
              /\ calls[c].by = "doStart" =>
                    (calls[c].caught = "doStart" /\ initPc = "initialized")
        /\ (calls[c].by = "initIntegration" /\ calls[c].pc = "done") =>
              initPc \in {"initialized", "failed"}

C19_Witness ==
    \E c \in Calls :
        /\ calls[c].by = "doStart"
        /\ calls[c].outcome = "raised"
        /\ calls[c].res.got
        /\ calls[c].caught = "doStart"
        /\ initPc = "initialized"
        /\ BGIntegration

\* the identity a request carries: a user id, or none (the 0 of the
\* register payload and the null of the session payloads)
SentIdentity(id) == IF id.t = "number" /\ id.v >= 1 THEN id ELSE Null

\* C20: one identity source per page load: the register, start-session and
\* end-session requests of a page load all carry the same identity.
C20_OneIdentityPerPageLoad ==
    \A c \in Calls : \A d \in Calls :
        SentIdentity(calls[c].telegram_id) = SentIdentity(calls[d].telegram_id)

\* call c is inside fetchWithTimeout
InAttempt(c) == IF c \in Calls THEN calls[c].pc = "fetch" ELSE FALSE

\* C21: every fetchWithTimeout call terminates whatever the transport
\* does, also when it never responds: the timers alone take a call that is
\* in an attempt to a returned response or a raised failure.
C21_FetchTerminates ==
    \A c \in 1..MaxCalls : InAttempt(c) ~> ~InAttempt(c)

C21_Witness ==
    \E c \in Calls :
        /\ retries = MaxRetries
        /\ calls[c].error = "abort"
        /\ calls[c].failed = MaxRetries + 1
        /\ calls[c].pc = "done"

\* blobs that do not URL-decode, or whose user field is not JSON
MalformedBlobs == {Param(<<"user", "=", "%">>), Param(<<"user", "=", "%7B", "x">>)}

\* C22: a malformed tgWebAppData blob is treated like an absent one: with
\* no host SDK the context is unavailable (null), the requests carry what
\* they carry without a blob, and the page load goes on to register.
C22_MalformedBlobIsAbsent ==
    (tgWebAppData \in MalformedBlobs /\ sdk = Null) =>
        /\ getTelegramContext = Null
        /\ initPc # "loading" => Len(calls) >= 1
        /\ \A c \in Calls :
              calls[c].telegram_id =
                  IF variant # "bg-integration.js" /\ Truthy(URLuid)
                        /\ (calls[c].fn = "registerPlayer" \/ variant = "part_003")
                  THEN URLuid
                  ELSE IF calls[c].fn = "registerPlayer" \/ variant = "part_003"
                  THEN Num(0)
                  ELSE Null

C22_Witness ==
    /\ variant = "part_002"
    /\ tgWebAppData \in MalformedBlobs
    /\ sdk = Null
    /\ tg_uid = NoParam
    /\ Len(calls) >= 2
    /\ calls[1].telegram_id = Num(0)
    /\ calls[2].telegram_id = Null

\* the start-session calls made so far
StartCalls == {c \in Calls : calls[c].fn = "startSession"}

\* start call s created a session and end call e, invoked after s was
\* issued, is the only end call; both have completed
StartedThenEnded(s, e) ==
    /\ s < e
    /\ Cardinality(StartCalls) = 1
    /\ Cardinality(EndCalls) = 1
    /\ calls[s].pc = "done"
    /\ calls[s].outcome = "returned"
    /\ Truthy(SavedId(calls[s].res.data))
    /\ calls[e].pc = "done"

\* C23: for one startSession and one endSession invoked after it was
\* issued, once both have completed the end request carried the id of the
\* session the start created and storage holds no session record.
C23_StartedSessionIsEnded ==
    \A s \in StartCalls : \A e \in EndCalls :
        StartedThenEnded(s, e) =>
            /\ calls[e].session_id = SavedId(calls[s].res.data)
            /\ store = NoItem

\* the register call of initIntegration returned
Registered ==
    \E c \in Calls : calls[c].by = "initIntegration" /\ calls[c].outcome = "returned"

====
